---- MODULE Spec2Model ----
(***************************************************************************)
(* CompileIQ: the compile/run harness (app/xml_java/xml_java.py) and the   *)
(* evaluation loop with its verdict (backup/app/client.py, app/client.py). *)
(*                                                                         *)
(* Spec        one run of the client script: interpreter_agent ->          *)
(*             dinamic_agent -> optimize_agent -> conclusive_agent ->      *)
(*             validate_code, every harness call taken step by step.       *)
(* SpecHarness two operating-system processes, each running                *)
(*             `python xml_java.py <file> <class>` on the same machine.    *)
(* SpecTelemetry the parsers and writers of xml_java.py, xml_generator.py   *)
(*             and csv_generator.py applied to the streams, the GC log and *)
(*             the duration of one finished run.                           *)
(* SpecRewrite the backup client's validate_code rewriting and writing its *)
(*             candidates.                                                 *)
(* SpecPipeline one call of run_pipeline of app/edge_ai_pipeline.py.       *)
(***************************************************************************)
EXTENDS Integers, Sequences, FiniteSets, TLC

VARIABLES
    variant,              \* which client script runs: "backup" or "app"
    installed,            \* javac/java can be invoked on this machine
    pc,                   \* position of the client script
    exc,                  \* uncaught exception that ended the client, <<>> if none
    passes,               \* calls of interpreter_agent so far
    sessions,             \* calls of validate_code so far
    codigos_java,         \* global candidate list
    time_limit_ms_global, \* global time limit
    execution_times,      \* validate_code: list of [filepath, tempo_ms]
    best,                 \* conclusive_agent: <<[filepath, time]>> once validate_code returned
    verdict,              \* "none", "Conclusive", "NonConclusive"
    h,                    \* per process: the frame of run_java_analysis
    gc_log,               \* the file <tempdir>/gc.log
    files,                \* .java files on disk, by file stem
    xml,                  \* <class>-metrics.xml files on disk, by class name
    solucoes,             \* optimize_agent: the candidate texts found in the latest reply
    run_proc,             \* outcome of one `java` run: stdout, stderr, duration
    gc_text,              \* lines of the GC log that run left behind
    metrics_xml,          \* xml_java.py: the document written from them, <<>> before
    analysis_xml,         \* xml_generator.py: the document written from them, <<>> before
    csv_out,              \* csv_generator.py: the five tables written from them, <<>> before
    pipe                  \* edge_ai_pipeline.py: the frame of run_pipeline

vars == <<variant, installed, pc, exc, passes, sessions, codigos_java,
          time_limit_ms_global, execution_times, best, verdict, h, gc_log,
          files, xml, solucoes, run_proc, gc_text, metrics_xml, analysis_xml,
          csv_out, pipe>>

\* What the client and the harness never touch: the outcome of a single run,
\* what the three writers make of it, and the edge pipeline.
teleVars == <<run_proc, gc_text, metrics_xml, analysis_xml, csv_out, pipe>>

clientVars == <<variant, pc, exc, passes, sessions, codigos_java,
                time_limit_ms_global, execution_times, best, verdict, solucoes,
                teleVars>>

-----------------------------------------------------------------------------
(* Bounds of the model *)

MaxReply   == 3     \* candidates in the first reply of the optimizer model
MaxRetryReply == 1  \* candidates in the reply of a later pass
MaxPasses  == 2     \* analyse/optimize/evaluate passes of one client run
MaxGcLines == 1     \* GC log lines one JVM run writes
MaxCliRuns == 2     \* invocations each command-line process makes

(* Program constants *)

SliceLen    == 3    \* matches[:3]
TimeLimitMs == 190  \* optimize_agent(java_filepath, resp.message.content, 190)

-----------------------------------------------------------------------------
(* Values *)

None    == <<>>
Some(x) == <<x>>

Client   == "client"
CliProcs == {"cli1", "cli2"}
Procs    == {Client} \cup CliProcs

\* A class name / file stem: "Test01", "TestHardCode<i>", "" (app: class_name = "").
Test01          == <<"Test", 1>>
EmptyName       == <<"", 0>>
HardCode(i)     == <<"TestHardCode", i>>
Names           == {Test01, EmptyName} \cup {HardCode(i) : i \in 1..(MaxReply + 1)}

\* A Java text: what its body is and which classes it declares, in order.
Cls(n, p) == [name |-> n, pub |-> p]
Text(b, cs) == [body |-> b, classes |-> cs]

\* The candidate texts the optimizer model may answer with.
Texts ==
    { Text("v2", <<Cls(<<"Main", 0>>, FALSE)>>),\* a complete package-private class
      Text("snippet", <<>>),                    \* a method only, no class
      Text("broken", <<Cls(Test01, TRUE)>>) }   \* a public class that does not compile

\* Wall-clock durations of a run, in microseconds.
RunTimesUs == {150000, 189600, 310000}


\* The Test01.java the run starts from.
OrigTexts == { Text("v1", <<Cls(Test01, TRUE)>>), Text("broken", <<Cls(Test01, TRUE)>>) }

Min2(a, b) == IF a < b THEN a ELSE b

\* run_pipeline has not been called.
NoPipeline == [pc |-> "none"]

\* No `java` run whose streams are looked at.
NoRun == [stdout |-> <<>>, stderr |-> <<>>, us |-> 0]

-----------------------------------------------------------------------------
(* The toolchain and the files, as the harness sees them *)

Absent == [exists |-> FALSE, lines |-> <<>>]
StaleLog == [exists |-> TRUE, lines |-> << <<"earlier", 0>> >>]

\* javac <stem>.java: a public class must carry the name of its file.
Compiles(t, stem) ==
    /\ t.body # "broken"
    /\ Len(t.classes) > 0
    /\ \A i \in 1..Len(t.classes) : t.classes[i].pub => t.classes[i].name = stem

\* compile_proc = subprocess.run(["javac", java_file], capture_output=True, text=True)
Javac(file, stem) ==
    IF file = None
    THEN [returncode |-> 2, stderr |-> <<[file |-> stem, why |-> "file not found"]>>]
    ELSE IF Compiles(file[1], stem)
    THEN [returncode |-> 0, stderr |-> <<>>]
    ELSE [returncode |-> 1,
          stderr |-> <<[file |-> stem,
                        why |-> IF file[1].body = "broken" \/ Len(file[1].classes) = 0
                                THEN "syntax" ELSE "class name"]>>]

\* The JVM writing n lines of -Xlog:gc*:file=<gc_log>; it may append to a file
\* it finds or start it afresh.  A run that logs nothing leaves the path alone.
JvmLog(log, tag, n, mode) ==
    IF n = 0 THEN log
    ELSE [exists |-> TRUE,
          lines  |-> (IF mode = "append" THEN log.lines ELSE <<>>) \o [i \in 1..n |-> tag]]

\* f"{tempo_execucao:.3f}": seconds with three fraction digits, kept as thousandths.
FormatSec3(us) == (us + 500) \div 1000

\* int(float(val) * 1000): the product falls just below the integer for these
\* thousandths (1.001 * 1000 = 1000.9999999999999), and int() truncates.
LossyThousandths == {1001 + 2 * k : k \in 0..11}
IntMs(th) == IF th \in LossyThousandths THEN th - 1 ELSE th

-----------------------------------------------------------------------------
(* run_java_analysis(java_file, class_name), one frame per process *)

IdleFrame ==
    [pc |-> "idle", java_file |-> Test01, class_name |-> Test01, inv |-> 0,
     compile_proc |-> None, child |-> "none", wrote |-> 0, tempo_execucao |-> None,
     gc_events |-> <<>>, err |-> None]

\* Entering run_java_analysis.
NewCall(f, java_file, class_name) ==
    [IdleFrame EXCEPT !.pc = "compile", !.java_file = java_file,
                      !.class_name = class_name, !.inv = f.inv + 1]

Tag(p) == <<p, h[p].inv>>

\* A harness that does not look at javac's exit code.
CompileFailedIgnored(proc) == FALSE

\* if compile_proc.returncode != 0
CompileFailed(proc) == proc.returncode # 0

CompileError(proc) ==
    [type |-> "RuntimeError", msg |-> <<"Erro na compilacao: ", proc.stderr>>]

\* 1. Compilar
Compile(p) ==
    /\ h[p].pc = "compile"
    /\ IF ~installed
       THEN h' = [h EXCEPT ![p].pc = "failed",
                           ![p].err = Some([type |-> "FileNotFoundError", msg |-> <<"javac">>])]
       ELSE LET proc == Javac(files[h[p].java_file], h[p].java_file) IN
            IF CompileFailed(proc)
            THEN h' = [h EXCEPT ![p].pc = "failed", ![p].compile_proc = Some(proc),
                                ![p].err = Some(CompileError(proc))]
            ELSE h' = [h EXCEPT ![p].pc = "remove", ![p].compile_proc = Some(proc)]
    /\ UNCHANGED <<clientVars, installed, gc_log, files, xml>>

\* A harness that leaves the log of the earlier run in place.
RemovedLogKept(log) == log

\* if os.path.exists(gc_log): os.remove(gc_log)
RemovedLog(log) == IF log.exists THEN Absent ELSE log

RemoveGcLog(p) ==
    /\ h[p].pc = "remove"
    /\ gc_log' = RemovedLog(gc_log)
    /\ h' = [h EXCEPT ![p].pc = "launch"]
    /\ UNCHANGED <<clientVars, installed, files, xml>>

\* 2. subprocess.run(["java", ...]) starts the child and waits for it; the
\* program under test either exits at some point or never does.
Launch(p) ==
    /\ h[p].pc = "launch"
    /\ \E fate \in {"exits", "hangs"} :
          h' = [h EXCEPT ![p].pc = "running", ![p].child = fate]
    /\ UNCHANGED <<clientVars, installed, gc_log, files, xml>>

\* The child exits: subprocess.run returns, fim_exec - inicio_exec is taken.
\* The JVM has logged nothing (it could not start) or MaxGcLines lines.
ChildExit(p) ==
    /\ h[p].pc = "running"
    /\ h[p].child = "exits"
    /\ \E us \in RunTimesUs, n \in {0, MaxGcLines}, mode \in {"append", "truncate"} :
          /\ gc_log' = JvmLog(gc_log, Tag(p), n, mode)
          /\ h' = [h EXCEPT ![p].pc = "collect", ![p].child = "exited",
                            ![p].wrote = n, ![p].tempo_execucao = Some(us)]
    /\ UNCHANGED <<clientVars, installed, files, xml>>

\* 3. gc_events = [l.strip() for l in f if l.strip()] when the log exists
ReadGcLog(log) == IF log.exists THEN log.lines ELSE <<>>

\* 4. the metrics document
MetricsDoc(p, events) ==
    [executionTimeSec |-> FormatSec3(h[p].tempo_execucao[1]),
     gcEvents |-> Len(events),
     by |-> Tag(p)]             \* which invocation wrote the file

\* 3.-4. read the GC log, write <class_name>-metrics.xml, return its path
Collect(p) ==
    /\ h[p].pc = "collect"
    /\ LET events == ReadGcLog(gc_log) IN
          /\ h' = [h EXCEPT ![p].pc = "done", ![p].gc_events = events]
          /\ xml' = [xml EXCEPT ![h[p].class_name] = Some(MetricsDoc(p, events))]
    /\ UNCHANGED <<clientVars, installed, gc_log, files>>

Harness(p) ==
    \/ Compile(p)
    \/ RemoveGcLog(p)
    \/ Launch(p)
    \/ ChildExit(p)
    \/ Collect(p)

\* if __name__ == "__main__": xml_file = run_java_analysis(sys.argv[1], sys.argv[2])
CliStart(p) ==
    /\ p \in CliProcs
    /\ h[p].pc \in {"idle", "done", "failed"}
    /\ h[p].inv < MaxCliRuns
    /\ h' = [h EXCEPT ![p] = NewCall(h[p], Test01, Test01)]
    /\ UNCHANGED <<clientVars, installed, gc_log, files, xml>>

-----------------------------------------------------------------------------
(* The client script *)

\* What the optimizer model answers: text from which candidates are extracted.
\* "unparseable": no JSON / no code block in it; "no_key": JSON without "solucoes".
Replies ==
    {[kind |-> k, solucoes |-> <<>>] : k \in {"unparseable", "no_key"}}
    \cup {[kind |-> "ok", solucoes |-> s] :
             s \in UNION {[1..n -> Texts] :
                             n \in 0..(IF passes = 1 THEN MaxReply ELSE MaxRetryReply)}}

Raise(type) == Some([type |-> type, msg |-> <<>>])

\* re.sub(r"(public\s+class\s+|class\s+)\w+", r"\1" + novo_nome, codigo, count=1):
\* the name of the first class declaration of the text becomes novo_nome.
replace_class_name(codigo, novo_nome) ==
    IF Len(codigo.classes) = 0 THEN codigo
    ELSE [codigo EXCEPT !.classes[1].name = novo_nome]

\* backup optimize_agent: a block without "class " is wrapped in public class Test01.
Cleaned(code) ==
    IF Len(code.classes) = 0 THEN Text(code.body, <<Cls(Test01, TRUE)>>) ELSE code

\* An optimize_agent that never empties codigos_java.
ExtractedOntoOld(reply) ==
    codigos_java \o
        (IF variant = "backup"
         THEN [i \in 1..Min2(Len(reply.solucoes), SliceLen) |-> Cleaned(reply.solucoes[i])]
         ELSE reply.solucoes)

\* The candidate list optimize_agent leaves in codigos_java.
Extracted(reply) ==
    IF variant = "backup"
    THEN [i \in 1..Min2(Len(reply.solucoes), SliceLen) |-> Cleaned(reply.solucoes[i])]
    ELSE codigos_java \o reply.solucoes

\* A validate_code that gives every candidate the same class name and file.
ClassNameShared(i) == IF variant = "backup" THEN HardCode(1) ELSE EmptyName

\* validate_code, iteration i: the class name and file stem the candidate gets.
ClassNameOf(i) == IF variant = "backup" THEN HardCode(i) ELSE EmptyName

\* validate_code, iteration i: what is written to the candidate's file.
Written(cands, i) ==
    IF variant = "backup" THEN replace_class_name(cands[i], ClassNameOf(i)) ELSE cands[i]

\* min(iterable, key=...): keep the first item, replace it by a later one only
\* when that one's key is strictly smaller.
RECURSIVE MinScan(_, _, _)
MinScan(times, k, cur) ==
    IF k > Len(times) THEN cur
    ELSE MinScan(times, k + 1, IF times[k].tempo_ms < cur.tempo_ms THEN times[k] ELSE cur)

RECURSIVE MinScanLast(_, _, _)
MinScanLast(times, k, cur) ==
    IF k > Len(times) THEN cur
    ELSE MinScanLast(times, k + 1, IF times[k].tempo_ms <= cur.tempo_ms THEN times[k] ELSE cur)

\* A min() that keeps the last of several least entries.
PyMinLast(times) == MinScanLast(times, 2, times[1])

\* best = min(execution_times, key=lambda x: list(x.values())[0])
PyMin(times) == MinScan(times, 2, times[1])

\* A comparison that lets a time equal to the limit pass.
IsConclusiveOrEqual(best_time, limit) == best_time <= limit

\* conclusive_agent: if best_time < time_limit_ms_global
IsConclusive(best_time, limit) == best_time < limit

\* interpreter_agent(java_filepath): reads the file, asks the model, and calls
\* dinamic_agent(java_filepath, "Test01", ...), which enters run_java_analysis.
interpreter_agent ==
    /\ pc = "main"
    /\ passes' = passes + 1
    /\ pc' = "dinamic_agent"
    /\ h' = [h EXCEPT ![Client] = NewCall(h[Client], Test01, Test01)]
    /\ UNCHANGED <<teleVars, solucoes, variant, installed, exc, sessions, codigos_java,
                   time_limit_ms_global, execution_times, best, verdict,
                   gc_log, files, xml>>

\* A client that calls run_java_analysis a second time when it raised.
HarnessRetriesOnce ==
    /\ pc \in {"dinamic_agent", "validate_code"}
    /\ h[Client].pc = "failed"
    /\ IF h[Client].inv < 2
       THEN /\ h' = [h EXCEPT ![Client] =
                        NewCall(h[Client], h[Client].java_file, h[Client].class_name)]
            /\ UNCHANGED <<pc, exc>>
       ELSE /\ pc' = "crashed"
            /\ exc' = h[Client].err
            /\ h' = h
    /\ UNCHANGED <<teleVars, solucoes, variant, installed, passes, sessions, codigos_java,
                   time_limit_ms_global, execution_times, best, verdict,
                   gc_log, files, xml>>

\* An exception of run_java_analysis is caught nowhere: it ends the script.
HarnessRaises ==
    /\ pc \in {"dinamic_agent", "validate_code"}
    /\ h[Client].pc = "failed"
    /\ pc' = "crashed"
    /\ exc' = h[Client].err
    /\ UNCHANGED <<teleVars, solucoes, variant, installed, passes, sessions, codigos_java,
                   time_limit_ms_global, execution_times, best, verdict,
                   h, gc_log, files, xml>>

\* The rest of dinamic_agent, then optimize_agent(java_filepath, metrics, 190),
\* conclusive_agent() and validate_code() up to its first run_java_analysis.
optimize_agent ==
    /\ pc = "dinamic_agent"
    /\ h[Client].pc = "done"
    /\ \E reply \in Replies :
          IF variant = "app" /\ reply.kind = "unparseable"
          THEN \* except Exception: print(...); return
               /\ pc' = "done"
               /\ UNCHANGED <<exc, sessions, codigos_java, time_limit_ms_global,
                              execution_times, best, verdict, h, files, solucoes>>
          ELSE IF variant = "app" /\ reply.kind = "no_key"
          THEN \* parsed["solucoes"]
               /\ pc' = "crashed"
               /\ exc' = Raise("KeyError")
               /\ UNCHANGED <<sessions, codigos_java, time_limit_ms_global,
                              execution_times, best, verdict, h, files, solucoes>>
          ELSE LET cands == Extracted(reply) IN
               /\ solucoes' = reply.solucoes
               /\ codigos_java' = cands
               /\ time_limit_ms_global' = TimeLimitMs
               /\ sessions' = sessions + 1
               /\ execution_times' = <<>>
               /\ best' = None
               /\ verdict' = "none"
               /\ IF Len(cands) = 0
                  THEN \* min() of an empty list
                       /\ pc' = "crashed"
                       /\ exc' = Raise("ValueError")
                       /\ UNCHANGED <<h, files>>
                  ELSE /\ pc' = "validate_code"
                       /\ files' = [files EXCEPT ![ClassNameOf(1)] = Some(Written(cands, 1))]
                       /\ h' = [h EXCEPT ![Client] =
                                   NewCall(h[Client], ClassNameOf(1), ClassNameOf(1))]
                       /\ exc' = exc
    /\ UNCHANGED <<teleVars, variant, installed, passes, gc_log, xml>>

\* validate_code after run_java_analysis returned for candidate i: the rest of
\* test_execution_time, then the next candidate, or min() and the verdict of
\* conclusive_agent.  The document just written always holds executionTimeSec
\* as a decimal, so the two `return 0` exits of test_execution_time are not taken.
validate_code ==
    /\ pc = "validate_code"
    /\ h[Client].pc = "done"
    /\ IF variant = "app"
       THEN \* tree = ET.parse(xml_path): ET is not imported in app/client.py
            /\ pc' = "crashed"
            /\ exc' = Raise("NameError")
            /\ UNCHANGED <<execution_times, best, verdict, h, files>>
       ELSE LET i     == Len(execution_times) + 1
                val   == xml[h[Client].class_name][1].executionTimeSec
                times == Append(execution_times,
                                [filepath |-> ClassNameOf(i), tempo_ms |-> IntMs(val)])
            IN
            /\ execution_times' = times
            /\ exc' = exc
            /\ IF i < Len(codigos_java)
               THEN /\ files' = [files EXCEPT ![ClassNameOf(i + 1)] =
                                    Some(Written(codigos_java, i + 1))]
                    /\ h' = [h EXCEPT ![Client] =
                                NewCall(h[Client], ClassNameOf(i + 1), ClassNameOf(i + 1))]
                    /\ UNCHANGED <<pc, best, verdict>>
               ELSE LET b == PyMin(times) IN
                    /\ best' = Some([filepath |-> b.filepath, time |-> b.tempo_ms])
                    /\ IF IsConclusive(b.tempo_ms, time_limit_ms_global)
                       THEN verdict' = "Conclusive" /\ pc' = "done"
                       ELSE verdict' = "NonConclusive" /\ pc' = "non_conclusive_agent"
                    /\ UNCHANGED <<h, files>>
    /\ UNCHANGED <<teleVars, solucoes, variant, installed, passes, sessions, codigos_java,
                   time_limit_ms_global, gc_log, xml>>

\* non_conclusive_agent: app prints and returns; backup calls
\* interpreter_agent on Test01.java again.
non_conclusive_agent ==
    /\ pc = "non_conclusive_agent"
    /\ IF variant = "app"
       THEN /\ pc' = "done"
            /\ UNCHANGED <<passes, h>>
       ELSE /\ passes < MaxPasses
            /\ passes' = passes + 1
            /\ pc' = "dinamic_agent"
            /\ h' = [h EXCEPT ![Client] = NewCall(h[Client], Test01, Test01)]
    /\ UNCHANGED <<teleVars, solucoes, variant, installed, exc, sessions, codigos_java,
                   time_limit_ms_global, execution_times, best, verdict,
                   gc_log, files, xml>>

-----------------------------------------------------------------------------
(* The streams of one run and what the three writers make of them *)

MaxLines == 3   \* lines in stdout, in stderr and in the GC log of the run

\* A stdout line, stripped, as its whitespace-separated fields.
Num(n)    == [k |-> "num", n |-> n, s |-> ""]      \* \d+
Flag(c)   == [k |-> "flag", n |-> 0, s |-> c]      \* "!" or "n"
Name(w)   == [k |-> "name", n |-> 0, s |-> w]      \* [\w.$<>:()]+, not all digits
Size(n)   == [k |-> "size", n |-> n, s |-> ""]     \* "(n bytes)"
Thread(w) == [k |-> "thread", n |-> 0, s |-> w]    \* a word holding "Thread-" once

StdoutLines ==
    { <<Num(134), Num(3), Num(3), Name("A::f"), Size(55)>>,
      <<Num(140), Num(4), Name("A::f"), Size(20)>>,
      <<Num(150), Num(2), Flag("n"), Num(0), Name("B::g"), Size(8)>>,
      <<Thread("Thread-1"), Name("done")>>,
      <<Num(42), Name("items")>>,
      <<>> }

\* A line of stderr or of the GC log as the sequence of its pieces: " ", ":",
\* "at" and "Exception" are what the parsers look for, any other piece is text
\* holding none of them.
Sp == " "

StderrLines ==
    { <<"Runtime", "Exception", ":", Sp, "boom">>,
      <<"IO", "Exception">>,
      <<":", Sp, "Exception", Sp, "caught">>,
      <<Sp, Sp, "at", Sp, "Main.main">>,
      <<"warning">> }

GcLines ==
    { <<>>, <<Sp, Sp>>, <<"[gc]", Sp, "pause">>, <<Sp, "[gc]", Sp, "end", Sp>> }

TextsOver(lines) == UNION {[1..n -> lines] : n \in 0..MaxLines}

\* The outcomes of a run that are parsed: one stream varies, the others are empty.
RunOutcomes ==
    {[stdout |-> t, stderr |-> <<>>, gc |-> <<>>, us |-> 150000] : t \in TextsOver(StdoutLines)}
    \cup {[stdout |-> <<>>, stderr |-> t, gc |-> <<>>, us |-> 150000] :
             t \in TextsOver(StderrLines)}
    \cup {[stdout |-> <<>>, stderr |-> <<>>, gc |-> t, us |-> 150000] : t \in TextsOver(GcLines)}
    \cup {[stdout |-> <<>>, stderr |-> <<>>, gc |-> <<>>, us |-> us] : us \in RunTimesUs}

\* str.strip()
RECURSIVE LStrip(_)
LStrip(l) == IF l # <<>> /\ Head(l) = Sp THEN LStrip(Tail(l)) ELSE l

RECURSIVE RStrip(_)
RStrip(l) == IF l # <<>> /\ l[Len(l)] = Sp THEN RStrip(SubSeq(l, 1, Len(l) - 1)) ELSE l

Strip(l) == RStrip(LStrip(l))

\* piece in line
Contains(l, piece) == \E i \in 1..Len(l) : l[i] = piece

\* line.split(":", 1)
Split1(l) ==
    IF ~Contains(l, ":") THEN <<l>>
    ELSE LET i == CHOOSE j \in 1..Len(l) : l[j] = ":" /\ \A m \in 1..(j - 1) : l[m] # ":"
         IN <<SubSeq(l, 1, i - 1), SubSeq(l, i + 1, Len(l))>>

\* line.strip().startswith("at ")
IsFrame(l) == LET t == Strip(l) IN Len(t) >= 2 /\ t[1] = "at" /\ t[2] = Sp

\* truth value of error_type: None and "" are false
Truthy(v) == v # None /\ v[1] # <<>>

\* if "Exception" in line and not error_type
ExceptionLine(line, error_type) == Contains(line, "Exception") /\ ~Truthy(error_type)

\* parse_errors, the loop over the lines from line k on
RECURSIVE ParseErrorsFrom(_, _, _)
ParseErrorsFrom(lines, k, acc) ==
    IF k > Len(lines) THEN acc
    ELSE LET line == lines[k] IN
         IF ExceptionLine(line, acc.error_type)
         THEN LET parts == Split1(line) IN
              ParseErrorsFrom(lines, k + 1,
                  [acc EXCEPT !.error_type = Some(Strip(parts[1])),
                              !.message = Some(IF Len(parts) > 1 THEN Strip(parts[2])
                                               ELSE <<>>)])
         ELSE IF IsFrame(line)
         THEN ParseErrorsFrom(lines, k + 1,
                  [acc EXCEPT !.stacktrace = Append(@, Strip(line))])
         ELSE ParseErrorsFrom(lines, k + 1, acc)

\* parse_errors(stderr_text): error_type, message (None until set), stacktrace
parse_errors(stderr_text) ==
    ParseErrorsFrom(stderr_text, 1,
                    [error_type |-> None, message |-> None, stacktrace |-> <<>>])

\* An <errors> element with an <error> child whenever a type was assigned.
ErrorsElemIfAssigned(stderr_text) ==
    LET e == parse_errors(stderr_text) IN
    IF e.error_type # None
    THEN <<[type |-> e.error_type[1], message |-> e.message[1], stacktrace |-> e.stacktrace]>>
    ELSE <<>>

\* xml_java / xml_generator: the <errors> element, with an <error> child only
\* if error_type
ErrorsElem(stderr_text) ==
    LET e == parse_errors(stderr_text) IN
    IF Truthy(e.error_type)
    THEN <<[type |-> e.error_type[1], message |-> e.message[1], stacktrace |-> e.stacktrace]>>
    ELSE <<>>

\* A reader that keeps blank lines.
ReadGcEventsAll(lines) == [i \in 1..Len(lines) |-> Strip(lines[i])]

NonBlank(l) == Strip(l) # <<>>

\* gc_events = [l.strip() for l in f if l.strip()]
ReadGcEvents(lines) ==
    LET kept == SelectSeq(lines, NonBlank) IN [i \in 1..Len(kept) |-> Strip(kept[i])]

\* enumerate(gc_events)
Enumerated(events) == [i \in 1..Len(events) |-> [index |-> i - 1, detail |-> events[i]]]

IsMethodName(f) == f.k \in {"name", "num"} \/ (f.k = "flag" /\ f.s = "n")

\* The regex with (\d+)? and ([!n]?) present or empty.
JitShape(l, bci, flag) ==
    LET p == 2 + (IF bci THEN 1 ELSE 0) + (IF flag THEN 1 ELSE 0) IN
    /\ Len(l) >= p + 2
    /\ l[1].k = "num"
    /\ bci => l[2].k = "num"
    /\ flag => l[p - 1].k = "flag"
    /\ l[p].k = "num"
    /\ IsMethodName(l[p + 1])
    /\ l[p + 2].k = "size"

JitGroups(l, bci, flag) ==
    LET p == 2 + (IF bci THEN 1 ELSE 0) + (IF flag THEN 1 ELSE 0) IN
    [id |-> l[1].n, flag |-> IF flag THEN l[p - 1].s ELSE "", level |-> l[p].n,
     method |-> l[p + 1], bytes |-> l[p + 2].n]

\* ^\s*(\d+)\s+(\d+)?\s*([!n]?)\s*(\d+)\s+([\w.$<>:()]+)\s+\((\d+)\s+bytes\)
\* matched against line.strip(): <<>> or the groups, the optional ones tried
\* present first.
jit_regex(l) ==
    IF JitShape(l, TRUE, TRUE) THEN Some(JitGroups(l, TRUE, TRUE))
    ELSE IF JitShape(l, TRUE, FALSE) THEN Some(JitGroups(l, TRUE, FALSE))
    ELSE IF JitShape(l, FALSE, TRUE) THEN Some(JitGroups(l, FALSE, TRUE))
    ELSE IF JitShape(l, FALSE, FALSE) THEN Some(JitGroups(l, FALSE, FALSE))
    ELSE None

\* re.match(r"^\s*\d+\s", l.strip())
StartsWithNumber(l) == Len(l) >= 2 /\ l[1].k = "num"

IsProgLine(l) == ~StartsWithNumber(l)

\* prog_lines = [l for l in stdout_text.splitlines() if not re.match(...)]
ProgLines(stdout_text) == SelectSeq(stdout_text, IsProgLine)

\* position of method in the dict, 0 if it is not a key
KeyIndex(methods, method) ==
    IF \E i \in 1..Len(methods) : methods[i].method = method
    THEN CHOOSE i \in 1..Len(methods) : methods[i].method = method
    ELSE 0

\* parse_jit_methods: methods[method]["compilations"] += 1; ["bytes"] += int(bytecode)
Counted(methods, g) ==
    LET i == KeyIndex(methods, g.method) IN
    IF i = 0
    THEN Append(methods, [method |-> g.method, compilations |-> 1, bytes |-> g.bytes])
    ELSE [methods EXCEPT ![i].compilations = @ + 1, ![i].bytes = @ + g.bytes]

RECURSIVE ParseJitMethodsFrom(_, _, _)
ParseJitMethodsFrom(lines, k, methods) ==
    IF k > Len(lines) THEN methods
    ELSE LET m == jit_regex(lines[k]) IN
         ParseJitMethodsFrom(lines, k + 1, IF m # None THEN Counted(methods, m[1]) ELSE methods)

\* xml_java.parse_jit_methods(stdout_text): the dict, in insertion order
parse_jit_methods(stdout_text) == ParseJitMethodsFrom(stdout_text, 1, <<>>)

Event(g) == [id |-> g.id, level |-> g.level, bytes |-> g.bytes, flag |-> g.flag]

\* A dict update that keeps only the newest event of a method.
EventReplaced(methods, g) ==
    LET i == KeyIndex(methods, g.method) IN
    IF i = 0 THEN Append(methods, [method |-> g.method, comps |-> <<Event(g)>>])
    ELSE [methods EXCEPT ![i].comps = <<Event(g)>>]

\* methods.setdefault(method, []).append({id, level, bytes, flag})
EventAppended(methods, g) ==
    LET i == KeyIndex(methods, g.method) IN
    IF i = 0 THEN Append(methods, [method |-> g.method, comps |-> <<Event(g)>>])
    ELSE [methods EXCEPT ![i].comps = Append(@, Event(g))]

RECURSIVE ParseJitLogFrom(_, _, _)
ParseJitLogFrom(lines, k, methods) ==
    IF k > Len(lines) THEN methods
    ELSE LET m == jit_regex(lines[k]) IN
         ParseJitLogFrom(lines, k + 1,
                         IF m # None THEN EventAppended(methods, m[1]) ELSE methods)

\* csv_generator / xml_generator.parse_jit_log: method -> list of its events
JitEvents(stdout_text) == ParseJitLogFrom(stdout_text, 1, <<>>)

RECURSIVE SumBytes(_)
SumBytes(comps) == IF comps = <<>> THEN 0 ELSE Head(comps).bytes + SumBytes(Tail(comps))

\* len(re.findall(r"Thread-", stdout_text))
RECURSIVE CountThreads(_)
CountThreads(fields) ==
    IF fields = <<>> THEN 0
    ELSE (IF Head(fields).k = "thread" THEN 1 ELSE 0) + CountThreads(Tail(fields))

RECURSIVE ThreadsIn(_)
ThreadsIn(stdout_text) ==
    IF stdout_text = <<>> THEN 0
    ELSE CountThreads(Head(stdout_text)) + ThreadsIn(Tail(stdout_text))

\* xml_java.run_java_analysis, step 4: the executionMetrics document
\* (timestamp, the clock at the time of writing, is left out)
ExecutionMetrics(run, gc_lines) ==
    [executionTimeSec   |-> FormatSec3(run.us),
     gcEvents           |-> Len(ReadGcEvents(gc_lines)),
     jitCompiledMethods |-> Len(parse_jit_methods(run.stdout)),
     errors             |-> Len(ErrorsElem(run.stderr)),
     threadsAtivas      |-> ThreadsIn(run.stdout)]

\* xml_generator.parse_jit_log: the <method> elements
JitLogElem(stdout_text) ==
    LET methods == JitEvents(stdout_text) IN
    [i \in 1..Len(methods) |->
        [name |-> methods[i].method,
         compilations |-> Len(methods[i].comps),
         totalTime |-> SumBytes(methods[i].comps),
         compilation |-> methods[i].comps]]

\* xml_generator.run_java_analysis, step 4: the applicationAnalysis document
ApplicationAnalysis(run, gc_lines) ==
    LET gc_events == ReadGcEvents(gc_lines)
        jitLog    == JitLogElem(run.stdout)
        errors    == ErrorsElem(run.stderr)
    IN
    [programOutput |-> ProgLines(run.stdout),
     jitLog |-> jitLog,
     errors |-> errors,
     garbageCollection |-> Enumerated(gc_events),
     summary |-> [totalGCEvents |-> Len(gc_events), totalMethods |-> Len(jitLog),
                  totalErrors |-> Len(errors)]]

\* A writer with one row per method, that of its first event.
RECURSIVE JitRowsPerMethod(_)
JitRowsPerMethod(methods) ==
    IF methods = <<>> THEN <<>>
    ELSE LET m == Head(methods) IN
         <<[method |-> m.method, compilations |-> Len(m.comps),
            total_bytes |-> SumBytes(m.comps), comp_id |-> m.comps[1].id,
            level |-> m.comps[1].level, bytes |-> m.comps[1].bytes,
            special |-> m.comps[1].flag]>>
         \o JitRowsPerMethod(Tail(methods))

\* csv_generator: the rows of jit_compilations.csv
RECURSIVE JitRows(_)
JitRows(methods) ==
    IF methods = <<>> THEN <<>>
    ELSE LET m == Head(methods) IN
         [i \in 1..Len(m.comps) |->
             [method |-> m.method, compilations |-> Len(m.comps),
              total_bytes |-> SumBytes(m.comps), comp_id |-> m.comps[i].id,
              level |-> m.comps[i].level, bytes |-> m.comps[i].bytes,
              special |-> m.comps[i].flag]]
         \o JitRows(Tail(methods))

\* csv_generator: the rows of errors.csv; "" is <<>>, a frame index is <<i>>
ErrorRows(stderr_text) ==
    LET e   == parse_errors(stderr_text)
        msg == IF e.message = None THEN <<>> ELSE e.message[1]
    IN
    IF ~Truthy(e.error_type) THEN <<>>
    ELSE IF e.stacktrace # <<>>
    THEN [i \in 1..Len(e.stacktrace) |->
             [error_type |-> e.error_type[1], message |-> msg,
              frame_index |-> Some(i - 1), frame_text |-> e.stacktrace[i]]]
    ELSE <<[error_type |-> e.error_type[1], message |-> msg,
            frame_index |-> None, frame_text |-> <<>>]>>

\* csv_generator.run_java_analysis_to_csv, steps 5-9: the five tables
CsvTables(run, gc_lines) ==
    LET prog_lines == ProgLines(run.stdout)
        methods    == JitEvents(run.stdout)
        gc_events  == ReadGcEvents(gc_lines)
    IN
    [program_output |-> [i \in 1..Len(prog_lines) |-> [line_no |-> i, text |-> prog_lines[i]]],
     jit_compilations |-> JitRows(methods),
     errors |-> ErrorRows(run.stderr),
     gc_events |-> Enumerated(gc_events),
     summary |-> [execution_time_ms |-> run.us \div 1000,
                  total_gc_events |-> Len(gc_events),
                  total_methods |-> Len(methods),
                  total_errors |-> IF Truthy(parse_errors(run.stderr).error_type)
                                   THEN 1 ELSE 0]]

\* What xml_java.run_java_analysis holds of a run before it writes the document:
\* tempo_execucao, gc_events, parse_jit_methods(stdout_text),
\* parse_errors(stderr_text), threads.
Telemetry(run, gc_lines) ==
    [executionTimeSec   |-> run.us,
     gcEvents           |-> ReadGcEvents(gc_lines),
     jitCompiledMethods |-> parse_jit_methods(run.stdout),
     errors             |-> ErrorsElem(run.stderr),
     threads            |-> ThreadsIn(run.stdout)]

baseVars == <<variant, installed, pc, exc, passes, sessions, codigos_java,
              time_limit_ms_global, execution_times, best, verdict, h, gc_log,
              files, xml, solucoes, pipe>>

\* xml_java.py has run the class: it writes <class>-metrics.xml
WriteMetricsXml ==
    /\ metrics_xml = None
    /\ metrics_xml' = Some(ExecutionMetrics(run_proc, gc_text))
    /\ UNCHANGED <<baseVars, run_proc, gc_text, analysis_xml, csv_out>>

\* xml_generator.py on the same outcome: it writes analysis.xml
WriteAnalysisXml ==
    /\ analysis_xml = None
    /\ analysis_xml' = Some(ApplicationAnalysis(run_proc, gc_text))
    /\ UNCHANGED <<baseVars, run_proc, gc_text, metrics_xml, csv_out>>

\* csv_generator.py on the same outcome: it writes the five tables
WriteCsv ==
    /\ csv_out = None
    /\ csv_out' = Some(CsvTables(run_proc, gc_text))
    /\ UNCHANGED <<baseVars, run_proc, gc_text, metrics_xml, analysis_xml>>

-----------------------------------------------------------------------------
(* Specifications *)

Init ==
    /\ variant \in {"backup", "app"}
    /\ installed \in BOOLEAN
    /\ pc = "main"
    /\ exc = None
    /\ passes = 0
    /\ sessions = 0
    /\ codigos_java = <<>>
    /\ time_limit_ms_global = 0
    /\ execution_times = <<>>
    /\ best = None
    /\ verdict = "none"
    /\ h = [p \in Procs |-> IdleFrame]
    /\ gc_log \in {Absent, StaleLog}
    /\ \E orig \in OrigTexts :
          files = [n \in Names |-> IF n = Test01 THEN Some(orig) ELSE None]
    /\ xml = [n \in Names |-> None]
    /\ solucoes = <<>>
    /\ run_proc = NoRun
    /\ gc_text = <<>>
    /\ metrics_xml = None
    /\ analysis_xml = None
    /\ csv_out = None
    /\ pipe = NoPipeline

Next ==
    \/ interpreter_agent
    \/ Harness(Client)
    \/ HarnessRaises
    \/ optimize_agent
    \/ validate_code
    \/ non_conclusive_agent

Spec == Init /\ [][Next]_vars

NextHarness == \E p \in CliProcs : CliStart(p) \/ Harness(p)

SpecHarness == Init /\ [][NextHarness]_vars

\* One run of a compiled class has ended; each of the three writers is applied
\* to its streams, its GC log and its duration.
InitTelemetry ==
    /\ variant = "backup"
    /\ installed = TRUE
    /\ pc = "main"
    /\ exc = None
    /\ passes = 0
    /\ sessions = 0
    /\ codigos_java = <<>>
    /\ time_limit_ms_global = 0
    /\ execution_times = <<>>
    /\ best = None
    /\ verdict = "none"
    /\ h = [p \in Procs |-> IdleFrame]
    /\ gc_log = Absent
    /\ files = [n \in Names |-> None]
    /\ xml = [n \in Names |-> None]
    /\ solucoes = <<>>
    /\ \E o \in RunOutcomes :
          /\ run_proc = [stdout |-> o.stdout, stderr |-> o.stderr, us |-> o.us]
          /\ gc_text = o.gc
    /\ metrics_xml = None
    /\ analysis_xml = None
    /\ csv_out = None
    /\ pipe = NoPipeline

NextTelemetry ==
    \/ WriteMetricsXml
    \/ WriteAnalysisXml
    \/ WriteCsv

SpecTelemetry == InitTelemetry /\ [][NextTelemetry]_vars

MaxCandidates == 2   \* candidates in the list whose texts are rewritten

\* Candidate texts as optimize_agent leaves them (each declares a class), by
\* the class declarations they hold, in order.
DeclTexts ==
    { Text("v2", <<Cls(<<"Main", 0>>, TRUE)>>),
      Text("v2", <<Cls(<<"Main", 0>>, FALSE)>>),
      Text("v2", <<Cls(<<"Helper", 0>>, FALSE), Cls(<<"Main", 0>>, TRUE)>>),
      Text("v2", <<Cls(<<"Main", 0>>, TRUE), Cls(<<"Helper", 0>>, FALSE)>>),
      Text("v2", <<Cls(<<"Helper", 0>>, FALSE), Cls(<<"Main", 0>>, FALSE)>>),
      Text("snippet", <<Cls(Test01, TRUE)>>) }

\* validate_code, the first two statements of iteration i: the text is
\* rewritten by replace_class_name and written to TestHardCode<i>.java.
WriteCandidate ==
    LET i == Cardinality({n \in Names : files[n] # None}) + 1 IN
    /\ pc = "validate_code"
    /\ i <= Len(codigos_java)
    /\ files' = [files EXCEPT ![ClassNameOf(i)] = Some(Written(codigos_java, i))]
    /\ UNCHANGED <<teleVars, solucoes, variant, installed, pc, exc, passes, sessions,
                   codigos_java, time_limit_ms_global, execution_times, best, verdict,
                   h, gc_log, xml>>

\* The backup client has entered validate_code with a list of candidates.
InitRewrite ==
    /\ variant = "backup"
    /\ installed = TRUE
    /\ pc = "validate_code"
    /\ exc = None
    /\ passes = 1
    /\ sessions = 1
    /\ \E n \in 1..MaxCandidates : codigos_java \in [1..n -> DeclTexts]
    /\ time_limit_ms_global = TimeLimitMs
    /\ execution_times = <<>>
    /\ best = None
    /\ verdict = "none"
    /\ h = [p \in Procs |-> IdleFrame]
    /\ gc_log = Absent
    /\ files = [n \in Names |-> None]
    /\ xml = [n \in Names |-> None]
    /\ solucoes = codigos_java
    /\ run_proc = NoRun
    /\ gc_text = <<>>
    /\ metrics_xml = None
    /\ analysis_xml = None
    /\ csv_out = None
    /\ pipe = NoPipeline

NextRewrite == WriteCandidate

SpecRewrite == InitRewrite /\ [][NextRewrite]_vars

-----------------------------------------------------------------------------
(* app/edge_ai_pipeline.py: run_pipeline *)

\* What a reply of the model looks like to _extract_json_block: the object in
\* a ```json fence, in <json> tags, or on its own; `valid` says whether
\* json.loads accepts the captured block; "none" is a chat call that failed.
LlmReply(form, valid, data) == [form |-> form, valid |-> valid, data |-> data]

\* The keys of a reply the pipeline reads; a key the reply lacks is <<>>.
Data(optimized_code, status) == [optimized_code |-> optimized_code, status |-> status]
NoData == Data(None, None)

EmptyCode == Text("", <<>>)

\* Java sources: a public class that runs, one that javac rejects, a source
\* with no public class, and the empty string.
EdgeTexts ==
    { Text("v1", <<Cls(Test01, TRUE)>>),
      Text("broken", <<Cls(Test01, TRUE)>>),
      Text("v2", <<Cls(<<"Main", 0>>, FALSE)>>),
      EmptyCode }

\* Values of "status" in a validator's reply.
StatusValues ==
    { <<"conclusive">>, <<"non_conclusive">>, <<Sp, "conclusive", Sp>>,
      <<"Conclusive">>, <<"maybe">>, <<>> }

DataOf(agent) ==
    IF agent = "optimize"
    THEN {NoData} \cup {Data(Some(t), None) : t \in EdgeTexts}
    ELSE IF agent = "validate"
    THEN {NoData} \cup {Data(None, Some(st)) : st \in StatusValues}
    ELSE {NoData}

LlmReplies(agent) ==
    {LlmReply("none", FALSE, NoData), LlmReply("bare", TRUE, NoData),
     LlmReply("fenced", FALSE, NoData), LlmReply("tagged", TRUE, NoData)}
        \cup {LlmReply("fenced", TRUE, d) : d \in DataOf(agent)}

Raised(type) == [raised |-> Some(type), block |-> None]
Block(b) == [raised |-> None, block |-> Some(b)]

\* _extract_json_block(text): the fenced and the tagged pattern give the
\* object; any other text reaches re.findall with the group reference (?1),
\* which Python's re rejects when it compiles the pattern.
extract_json_block(reply) ==
    IF reply.form \in {"fenced", "tagged"} THEN Block(reply) ELSE Raised("re.error")

\* call_ollama_json: ollama_chat, _extract_json_block, json.loads.
call_ollama_json(reply) ==
    IF reply.form = "none" THEN [raised |-> Some("ConnectionError"), data |-> None]
    ELSE LET json_block == extract_json_block(reply) IN
         IF json_block.raised # None
         THEN [raised |-> json_block.raised, data |-> None]
         ELSE IF ~reply.valid
         THEN [raised |-> Some("RuntimeError"), data |-> None]
         ELSE [raised |-> None, data |-> Some(reply.data)]

\* str(data.get(key, "")).strip() of a source text
CodeOf(field) == IF field = None THEN EmptyCode ELSE field[1]

\* extract_public_class_name(src): the first `public class <name>`, or None
extract_public_class_name(src) ==
    LET pub == {i \in 1..Len(src.classes) : src.classes[i].pub} IN
    IF pub = {} THEN None
    ELSE Some(src.classes[CHOOSE i \in pub : \A j \in pub : i <= j].name)

\* _javac_available(), _java_available(): `<tool> -version` could be started
\* and ended within five seconds.
javac_available == pipe.javac
java_available == pipe.java

\* A check of the toolchain that asks for javac only.
OnlyJavacChecked(evaluate) == evaluate /\ javac_available

\* if evaluate and _javac_available() and _java_available()
ToolsChecked(evaluate) == evaluate /\ javac_available /\ java_available

\* A run that never counts as timed out.
NeverTimedOut(run) == FALSE

\* subprocess.TimeoutExpired of the `java` step (timeout=15)
TimedOut(run) == run = "timeout"

\* What the machine does with one compile-and-run: the two durations and how
\* the `java` child ends.
Envs == [compile_ms : {300}, run_ms : {120}, run : {"exit0", "exit1", "timeout"}]

NewMetrics ==
    [ok |-> FALSE, class_name |-> None, compile_time_ms |-> None,
     run_time_ms |-> None, error |-> None]

\* _compile_and_run(source_code)
compile_and_run(source_code, env) ==
    LET class_name == extract_public_class_name(source_code) IN
    IF class_name = None
    THEN [NewMetrics EXCEPT !.error = Some("Classe publica nao encontrada.")]
    ELSE IF ~javac_available
    THEN [NewMetrics EXCEPT !.error = Some("Java nao encontrado no PATH")]
    ELSE LET cproc == Javac(Some(source_code), class_name[1])
             compiled == [NewMetrics EXCEPT !.compile_time_ms = Some(env.compile_ms)]
         IN  IF cproc.returncode # 0
             THEN [compiled EXCEPT !.error = Some("Falha ao compilar.")]
             ELSE IF ~java_available
             THEN [compiled EXCEPT !.error = Some("Java nao encontrado no PATH")]
             ELSE IF TimedOut(env.run)
             THEN [compiled EXCEPT !.error = Some("Execucao excedeu timeout.")]
             ELSE [compiled EXCEPT !.run_time_ms = Some(env.run_ms),
                                   !.ok = (env.run = "exit0"),
                                   !.class_name = class_name]

\* metrics = {"error": "javac/java indisponível no PATH"}
Unavailable == [error |-> "javac/java indisponivel no PATH"]

\* A validator whose unrecognised status counts as "conclusive".
ValidStatusOrConclusive(field) ==
    IF field # None /\ Strip(field[1]) = <<"non_conclusive">>
    THEN <<"non_conclusive">> ELSE <<"conclusive">>

\* validate_agent: status = str(data.get("status","")).strip(), and anything
\* but the two words becomes "non_conclusive".
ValidStatus(field) ==
    LET status == IF field = None THEN <<>> ELSE Strip(field[1]) IN
    IF status \notin {<<"conclusive">>, <<"non_conclusive">>}
    THEN <<"non_conclusive">> ELSE status

\* if val.status == "conclusive"
RoutesConclusive(status) == status = <<"conclusive">>

\* conclusive_agent(opt, val) and non_conclusive_agent(val) of the pipeline
EdgeConclusive(opt) ==
    [type |-> "conclusive", java_code |-> opt, trace |-> <<>>, why |-> ""]
EdgeNonConclusive ==
    [type |-> "non_conclusive", explanation |-> "", recommendations |-> <<>>]

PipeAborted(type, at) == [pipe EXCEPT !.pc = "aborted", !.exc = Some([type |-> type, at |-> at])]

PipeUnchanged ==
    UNCHANGED <<variant, installed, pc, exc, passes, sessions, codigos_java,
                time_limit_ms_global, execution_times, best, verdict, h, gc_log,
                files, xml, solucoes, run_proc, gc_text, metrics_xml,
                analysis_xml, csv_out>>

\* original_code = read_text(java_path)
EdgeReadText ==
    /\ pipe.pc = "read_text"
    /\ pipe' = IF pipe.original_code = None
               THEN PipeAborted("FileNotFoundError", "read_text")
               ELSE [pipe EXCEPT !.pc = "interpreter"]
    /\ PipeUnchanged

\* 1) interp = interpreter_agent(model, original_code)
EdgeInterpreterAgent ==
    /\ pipe.pc = "interpreter"
    /\ \E reply \in LlmReplies("interpreter") :
         LET r == call_ollama_json(reply) IN
         pipe' = IF r.raised # None
                 THEN PipeAborted(r.raised[1], "interpreter")
                 ELSE [pipe EXCEPT !.pc = "optimize"]
    /\ PipeUnchanged

\* 2) opt = optimize_agent(model, original_code, interp)
EdgeOptimizeAgent ==
    /\ pipe.pc = "optimize"
    /\ \E reply \in LlmReplies("optimize") :
         LET r == call_ollama_json(reply) IN
         pipe' = IF r.raised # None
                 THEN PipeAborted(r.raised[1], "optimize")
                 ELSE [pipe EXCEPT !.pc = "evaluate",
                                   !.opt = Some(CodeOf(r.data[1].optimized_code))]
    /\ PipeUnchanged

\* 3) the optional evaluation of both sources
EdgeEvaluate ==
    /\ pipe.pc = "evaluate"
    /\ IF ToolsChecked(pipe.evaluate)
       THEN \E e1 \in Envs, e2 \in Envs :
              pipe' = [pipe EXCEPT
                         !.pc = "validate",
                         !.calls = 2,
                         !.env_original = Some(e1),
                         !.env_optimized = Some(e2),
                         !.metrics_original =
                             Some(compile_and_run(pipe.original_code[1], e1)),
                         !.metrics_optimized =
                             Some(compile_and_run(pipe.opt[1], e2))]
       ELSE IF pipe.evaluate
       THEN pipe' = [pipe EXCEPT !.pc = "validate",
                                 !.metrics_original = Some(Unavailable),
                                 !.metrics_optimized = Some(Unavailable)]
       ELSE pipe' = [pipe EXCEPT !.pc = "validate"]
    /\ PipeUnchanged

\* 4) val = validate_agent(...)
EdgeValidateAgent ==
    /\ pipe.pc = "validate"
    /\ \E reply \in LlmReplies("validate") :
         LET r == call_ollama_json(reply) IN
         pipe' = IF r.raised # None
                 THEN PipeAborted(r.raised[1], "validate")
                 ELSE [pipe EXCEPT !.pc = "route",
                                   !.reply_status = Some(r.data[1].status),
                                   !.val_status = ValidStatus(r.data[1].status)]
    /\ PipeUnchanged

\* 5) the final routing and the return
EdgeRoute ==
    /\ pipe.pc = "route"
    /\ pipe' = [pipe EXCEPT
                  !.pc = "returned",
                  !.final = Some(IF RoutesConclusive(pipe.val_status)
                                 THEN EdgeConclusive(pipe.opt[1])
                                 ELSE EdgeNonConclusive)]
    /\ PipeUnchanged

\* run_pipeline(java_path, evaluate=...) has been called on some machine.
InitPipeline ==
    /\ variant = "backup"
    /\ pc = "done"
    /\ exc = None
    /\ passes = 0
    /\ sessions = 0
    /\ codigos_java = <<>>
    /\ time_limit_ms_global = TimeLimitMs
    /\ execution_times = <<>>
    /\ best = None
    /\ verdict = "none"
    /\ h = [p \in Procs |-> IdleFrame]
    /\ gc_log = Absent
    /\ files = [n \in Names |-> None]
    /\ xml = [n \in Names |-> None]
    /\ solucoes = <<>>
    /\ run_proc = NoRun
    /\ gc_text = <<>>
    /\ metrics_xml = None
    /\ analysis_xml = None
    /\ csv_out = None
    /\ \E evaluate \in BOOLEAN, javac \in BOOLEAN, java \in BOOLEAN,
          original_code \in {None} \cup {Some(t) : t \in EdgeTexts} :
         /\ installed = (javac /\ java)
         /\ pipe =
                [pc |-> "read_text", evaluate |-> evaluate,
                 javac |-> javac, java |-> java,
                 original_code |-> original_code, opt |-> None, calls |-> 0,
                 env_original |-> None, env_optimized |-> None,
                 metrics_original |-> None, metrics_optimized |-> None,
                 reply_status |-> None, val_status |-> <<>>,
                 final |-> None, exc |-> None]

NextPipeline ==
    \/ EdgeReadText
    \/ EdgeInterpreterAgent
    \/ EdgeOptimizeAgent
    \/ EdgeEvaluate
    \/ EdgeValidateAgent
    \/ EdgeRoute

SpecPipeline == InitPipeline /\ [][NextPipeline]_vars

-----------------------------------------------------------------------------
(* Properties *)

TimesOf(times) == [k \in 1..Len(times) |-> times[k].tempo_ms]

\* The lines the run step of p's current invocation wrote to its GC log.
OwnLines(p) == [i \in 1..h[p].wrote |-> Tag(p)]

\* Candidate i, as validate_code writes it, compiles.
CandidateCompiles(i) == Compiles(Written(codigos_java, i), ClassNameOf(i))

Benchmarked(i) ==
    \E k \in 1..Len(execution_times) : execution_times[k].filepath = ClassNameOf(i)

\* The evaluation session of this run is over: a verdict was printed or the
\* script ended.
SessionOver == sessions >= 1 /\ pc \in {"done", "crashed", "non_conclusive_agent"}

\* C1: conclusive_agent reports Conclusive exactly when validate_code returned
\* a selected candidate whose time in ms is strictly below the limit, and
\* NonConclusive exactly when the selected time is equal to or above the limit.
C1_ConclusiveIffBelowLimit ==
    /\ verdict = "Conclusive" <=> (best # None /\ best[1].time < time_limit_ms_global)
    /\ verdict = "NonConclusive" <=> (best # None /\ best[1].time >= time_limit_ms_global)

\* C1, witness: the best time equals the limit (190 ms) and the verdict is NonConclusive.
C1_Witness ==
    /\ verdict = "NonConclusive"
    /\ best # None
    /\ best[1].time = TimeLimitMs
    /\ time_limit_ms_global = TimeLimitMs

\* C2: what validate_code returns is the entry of the earliest candidate among
\* those with the least time: no candidate is faster, every earlier one is slower.
C2_EarliestMinimumSelected ==
    best # None =>
        /\ Len(execution_times) = Len(codigos_java)
        /\ \E k \in 1..Len(execution_times) :
              /\ best[1].filepath = HardCode(k)
              /\ execution_times[k].filepath = HardCode(k)
              /\ best[1].time = execution_times[k].tempo_ms
              /\ \A j \in 1..Len(execution_times) :
                    execution_times[j].tempo_ms >= best[1].time
              /\ \A j \in 1..(k - 1) : execution_times[j].tempo_ms > best[1].time

\* C2, witness: times 310, 190, 190 and the second candidate is returned.
C2_Witness ==
    /\ best # None
    /\ TimesOf(execution_times) = <<310, 190, 190>>
    /\ best[1].filepath = HardCode(2)

\* C3: when the harness step of a candidate failed, the session still ends with
\* every candidate that compiles benchmarked and, if there is one, with a
\* selected candidate among them.
C3_FailureDoesNotStopSession ==
    (SessionOver /\ h[Client].pc = "failed") =>
        /\ \A i \in 1..Len(codigos_java) : CandidateCompiles(i) => Benchmarked(i)
        /\ (\E i \in 1..Len(codigos_java) : CandidateCompiles(i)) => best # None

\* C4: when no candidate of the session compiles, the session ends with no
\* selected candidate and the verdict NonConclusive, not with an exception.
C4_AllFailedIsNonConclusive ==
    (/\ SessionOver
     /\ Len(codigos_java) > 0
     /\ \A i \in 1..Len(codigos_java) : ~CandidateCompiles(i)) =>
        /\ pc # "crashed"
        /\ best = None
        /\ verdict = "NonConclusive"

\* C5: with zero candidates extracted no session is started: validate_code is
\* not entered on an empty list and its min() never fails.
C5_NoSessionWithoutCandidates ==
    /\ exc # Raise("ValueError")
    /\ sessions >= 1 => Len(codigos_java) > 0

\* C6: a run performs at most one analyse/optimize/evaluate pass: after a
\* NonConclusive verdict no further pass and no further session is started.
C6_NonConclusiveIsTerminal == passes <= 1 /\ sessions <= 1

\* C7: the GC events an invocation records are exactly the lines its own run
\* step wrote, also when another invocation runs at the same time.
C7_GcEventsAreOwnLines ==
    \A p \in CliProcs : h[p].pc = "done" => h[p].gc_events = OwnLines(p)

\* C8: in the client, where invocations follow one another, the run step starts
\* with no GC log on disk, and the events recorded are exactly the lines of the
\* invocation's own run: none when that run logged nothing.
C8_SequentialRunStartsFromEmptyLog ==
    /\ h[Client].pc = "launch" => ~gc_log.exists
    /\ h[Client].pc = "done" => h[Client].gc_events = OwnLines(Client)

\* C8, witness: a second or later invocation whose run logged nothing recorded
\* no event, although the first invocation had logged lines.
C8_Witness ==
    /\ h[Client].pc = "done"
    /\ h[Client].inv >= 2
    /\ h[Client].wrote = 0
    /\ h[Client].gc_events = <<>>
    /\ xml[Test01] # None
    /\ xml[Test01][1].gcEvents > 0

\* C9: when javac returns a non-zero exit code the invocation has failed with a
\* RuntimeError carrying javac's stderr, no child was run, no duration was
\* measured and no metrics document was written by it.
C9_CompileFailureIsFatal ==
    \A p \in Procs :
        (h[p].compile_proc # None /\ h[p].compile_proc[1].returncode # 0) =>
            /\ h[p].pc = "failed"
            /\ h[p].compile_proc[1] = Javac(files[h[p].java_file], h[p].java_file)
            /\ h[p].err = Some([type |-> "RuntimeError",
                                msg |-> <<"Erro na compilacao: ",
                                          h[p].compile_proc[1].stderr>>])
            /\ h[p].child = "none"
            /\ h[p].tempo_execucao = None
            /\ \A n \in Names : xml[n] = None \/ xml[n][1].by # Tag(p)

\* C9, witness: the second candidate of a session failed to compile.
C9_Witness ==
    /\ pc = "validate_code"
    /\ h[Client].pc = "failed"
    /\ h[Client].class_name = HardCode(2)
    /\ h[Client].compile_proc # None
    /\ h[Client].compile_proc[1].returncode = 1

\* C10: the run step is bounded: while the harness waits for the child, a step
\* that ends the wait (the child's exit or a timeout) is possible.
C10_RunStepBounded ==
    h[Client].pc = "running" => ENABLED Harness(Client)

\* C11: on a machine without the toolchain the run fails at its first harness
\* call with the FileNotFoundError of subprocess.run: nothing is run or
\* benchmarked, no session and no verdict follow, and the call is not repeated.
C11_ToolchainMissingFailsSession ==
    ~installed =>
        /\ pc \in {"main", "dinamic_agent", "crashed"}
        /\ h[Client].pc \in {"idle", "compile", "failed"}
        /\ h[Client].inv <= 1
        /\ passes <= 1
        /\ sessions = 0
        /\ execution_times = <<>>
        /\ best = None
        /\ verdict = "none"
        /\ \A n \in Names : xml[n] = None
        /\ h[Client].err # None => h[Client].err[1].type = "FileNotFoundError"
        /\ pc = "crashed" => (exc = h[Client].err /\ exc # None)

\* C11, witness: the script has ended with the FileNotFoundError.
C11_Witness ==
    /\ ~installed
    /\ pc = "crashed"
    /\ exc # None
    /\ exc[1].type = "FileNotFoundError"
    /\ h[Client].inv = 1

\* C12: a candidate enters the harness under a class name and file path that
\* no earlier harness call of the run, of this session or an earlier one, has
\* used: no metrics document of that name is on disk yet.
C12_FreshPathPerCandidate ==
    (pc = "validate_code" /\ h[Client].pc = "compile") =>
        xml[h[Client].class_name] = None

\* C13: the rank key of a candidate is its measured execution time in whole
\* milliseconds, truncated toward zero.
C13_RankKeyIsTruncatedMs ==
    (/\ best # None
     /\ pc \in {"done", "non_conclusive_agent"}
     /\ h[Client].pc = "done"
     /\ h[Client].class_name = HardCode(Len(execution_times))) =>
        execution_times[Len(execution_times)].tempo_ms
            = h[Client].tempo_execucao[1] \div 1000

JitLineNos == {i \in 1..Len(run_proc.stdout) : jit_regex(run_proc.stdout[i]) # None}

IsNotJitLine(l) == jit_regex(l) = None

\* The stdout lines that do not match the JIT grammar, in order, numbered from 1.
NumberedRest ==
    LET rest == SelectSeq(run_proc.stdout, IsNotJitLine) IN
    [i \in 1..Len(rest) |-> [line_no |-> i, text |-> rest[i]]]

\* C15: every stdout line is a compilation event or a program-output line and
\* never both: there are as many compilation rows as lines matching the JIT
\* grammar, and the program output is exactly the other lines, in order,
\* numbered from 1.
C15_EveryLineClassifiedOnce ==
    /\ csv_out # None =>
          /\ Len(csv_out[1].jit_compilations) = Cardinality(JitLineNos)
          /\ csv_out[1].program_output = NumberedRest
    /\ analysis_xml # None =>
          analysis_xml[1].programOutput = SelectSeq(run_proc.stdout, IsNotJitLine)

\* The methods named by JIT-matching lines of stdout.
NamedMethods == {jit_regex(run_proc.stdout[i])[1].method : i \in JitLineNos}

\* The events of the JIT-matching lines that name method, in line order.
EventsNaming(method) ==
    LET Names1(l) == jit_regex(l) # None /\ jit_regex(l)[1].method = method
        ls == SelectSeq(run_proc.stdout, Names1)
    IN [i \in 1..Len(ls) |->
           [id |-> jit_regex(ls[i])[1].id, level |-> jit_regex(ls[i])[1].level,
            bytes |-> jit_regex(ls[i])[1].bytes, flag |-> jit_regex(ls[i])[1].flag]]

RECURSIVE SizesSum(_)
SizesSum(evs) == IF evs = <<>> THEN 0 ELSE evs[1].bytes + SizesSum(Tail(evs))

\* C16: the recorded methods are exactly the methods named by JIT-matching
\* lines, each once (none when no line matches); a method's count is the number
\* of matching lines naming it, its byte total the sum of their sizes, and its
\* events are those lines' events in line order.
C16_JitRecordsMatchLines ==
    /\ LET ms == parse_jit_methods(run_proc.stdout) IN
          /\ {ms[i].method : i \in 1..Len(ms)} = NamedMethods
          /\ Len(ms) = Cardinality(NamedMethods)
          /\ \A i \in 1..Len(ms) :
                /\ ms[i].compilations = Len(EventsNaming(ms[i].method))
                /\ ms[i].bytes = SizesSum(EventsNaming(ms[i].method))
    /\ metrics_xml # None => metrics_xml[1].jitCompiledMethods = Cardinality(NamedMethods)
    /\ analysis_xml # None =>
          LET log == analysis_xml[1].jitLog IN
          /\ {log[i].name : i \in 1..Len(log)} = NamedMethods
          /\ Len(log) = Cardinality(NamedMethods)
          /\ \A i \in 1..Len(log) :
                /\ log[i].compilation = EventsNaming(log[i].name)
                /\ log[i].compilations = Len(EventsNaming(log[i].name))
                /\ log[i].totalTime = SizesSum(EventsNaming(log[i].name))

\* C16, witness: two matching lines name A::f, with a program line between
\* them; A::f is recorded once with 2 compilations and 75 bytes.
C16_Witness ==
    /\ analysis_xml # None
    /\ Len(run_proc.stdout) = 3
    /\ jit_regex(run_proc.stdout[1]) # None
    /\ jit_regex(run_proc.stdout[2]) = None
    /\ jit_regex(run_proc.stdout[3]) # None
    /\ Len(analysis_xml[1].jitLog) = 1
    /\ analysis_xml[1].jitLog[1].compilations = 2
    /\ analysis_xml[1].jitLog[1].totalTime = 75

\* Positions of the GC log lines that hold more than whitespace.
NonBlankNos == {i \in 1..Len(gc_text) : \E j \in 1..Len(gc_text[i]) : gc_text[i][j] # Sp}

\* The k-th of them.
NthNonBlank(k) ==
    CHOOSE i \in NonBlankNos : Cardinality({j \in NonBlankNos : j <= i}) = k

\* The events a GC log with N non-blank lines gives: N events, in file order,
\* with index 0..N-1.
ExpectedGcEvents ==
    [k \in 1..Cardinality(NonBlankNos) |->
        [index |-> k - 1, detail |-> Strip(gc_text[NthNonBlank(k)])]]

\* C17: a GC log with N non-blank lines gives exactly N events, in file order,
\* indexed 0..N-1; a blank line gives no event and uses up no index.
C17_GcEventPerNonBlankLine ==
    /\ csv_out # None =>
          /\ csv_out[1].gc_events = ExpectedGcEvents
          /\ csv_out[1].summary.total_gc_events = Cardinality(NonBlankNos)
    /\ analysis_xml # None =>
          /\ analysis_xml[1].garbageCollection = ExpectedGcEvents
          /\ analysis_xml[1].summary.totalGCEvents = Cardinality(NonBlankNos)
    /\ metrics_xml # None => metrics_xml[1].gcEvents = Cardinality(NonBlankNos)

\* C17, witness: a log of a whitespace-only line followed by two lines of text
\* gave two events, the first with index 0.
C17_Witness ==
    /\ csv_out # None
    /\ Len(gc_text) = 3
    /\ NonBlankNos = {2, 3}
    /\ gc_text[1] = <<Sp, Sp>>
    /\ Len(csv_out[1].gc_events) = 2
    /\ csv_out[1].gc_events[1].index = 0
    /\ csv_out[1].gc_events[1].detail = Strip(gc_text[2])

\* Positions of the stderr lines that hold "Exception".
ExceptionNos ==
    {i \in 1..Len(run_proc.stderr) : \E j \in 1..Len(run_proc.stderr[i]) :
                                        run_proc.stderr[i][j] = "Exception"}

FirstExceptionNo == CHOOSE i \in ExceptionNos : \A j \in ExceptionNos : i <= j

\* Text before the first colon of a line, and after it, trimmed.
BeforeColon(l) == Strip(Split1(l)[1])
AfterColon(l) == IF Len(Split1(l)) > 1 THEN Strip(Split1(l)[2]) ELSE <<>>

\* C18: a recorded exception has the type and the message of the first stderr
\* line holding "Exception"; no later line changes them, and there is never
\* more than one recorded exception.
C18_FirstExceptionLineOnly ==
    /\ analysis_xml # None =>
          /\ Len(analysis_xml[1].errors) <= 1
          /\ \A i \in 1..Len(analysis_xml[1].errors) :
                /\ ExceptionNos # {}
                /\ analysis_xml[1].errors[i].type
                      = BeforeColon(run_proc.stderr[FirstExceptionNo])
                /\ analysis_xml[1].errors[i].message
                      = AfterColon(run_proc.stderr[FirstExceptionNo])
    /\ csv_out # None =>
          \A i \in 1..Len(csv_out[1].errors) :
                /\ ExceptionNos # {}
                /\ csv_out[1].errors[i].error_type
                      = BeforeColon(run_proc.stderr[FirstExceptionNo])
                /\ csv_out[1].errors[i].message
                      = AfterColon(run_proc.stderr[FirstExceptionNo])

\* The trimmed stderr lines that begin with "at " and come after the first
\* line holding "Exception", in order.
FramesAfterException ==
    LET after == SubSeq(run_proc.stderr, FirstExceptionNo + 1, Len(run_proc.stderr))
        fs    == SelectSeq(after, IsFrame)
    IN [i \in 1..Len(fs) |-> Strip(fs[i])]

\* C19: the stack frames recorded with an exception are exactly the trimmed
\* "at " lines after the exception line, in order; an "at " line before the
\* exception line is not among them.
C19_FramesFollowExceptionLine ==
    /\ analysis_xml # None =>
          \A i \in 1..Len(analysis_xml[1].errors) :
                analysis_xml[1].errors[i].stacktrace = FramesAfterException
    /\ (csv_out # None /\ csv_out[1].errors # <<>>) =>
          IF FramesAfterException = <<>>
          THEN /\ Len(csv_out[1].errors) = 1
               /\ csv_out[1].errors[1].frame_index = None
          ELSE /\ Len(csv_out[1].errors) = Len(FramesAfterException)
               /\ \A i \in 1..Len(csv_out[1].errors) :
                     /\ csv_out[1].errors[i].frame_index = Some(i - 1)
                     /\ csv_out[1].errors[i].frame_text = FramesAfterException[i]

\* C20: the document form is lossless: the document written for a run
\* determines the run's telemetry, so that reading it back gives the telemetry
\* it was written from.
C20_DocumentDeterminesTelemetry ==
    metrics_xml # None =>
        \A o \in RunOutcomes :
            ExecutionMetrics(o, o.gc) = metrics_xml[1] =>
                Telemetry(o, o.gc) = Telemetry(run_proc, gc_text)

\* Rows of jit_compilations.csv that carry the same method as row i.
RowsOfMethod(rows, i) == {j \in 1..Len(rows) : rows[j].method = rows[i].method}

RECURSIVE BytesOver(_, _)
BytesOver(rows, js) ==
    IF js = {} THEN 0
    ELSE LET j == CHOOSE x \in js : TRUE IN rows[j].bytes + BytesOver(rows, js \ {j})

\* C21: jit_compilations.csv has one row per compilation event, and on every
\* row compilations is the number of rows of the row's method and total_bytes
\* the sum of the bytes column over those rows.
C21_JitRowPerEvent ==
    csv_out # None =>
        LET rows == csv_out[1].jit_compilations IN
        /\ Len(rows) = Cardinality(JitLineNos)
        /\ \A i \in 1..Len(rows) :
              /\ rows[i].compilations = Cardinality(RowsOfMethod(rows, i))
              /\ rows[i].total_bytes = BytesOver(rows, RowsOfMethod(rows, i))
              /\ \E n \in JitLineNos :
                    LET g == jit_regex(run_proc.stdout[n])[1] IN
                    /\ rows[i].method = g.method
                    /\ rows[i].comp_id = g.id
                    /\ rows[i].bytes = g.bytes

\* C21, witness: three events, two of them of the same method, gave three rows;
\* the two rows of A::f carry 2 and 75, the row of B::g carries 1 and 8.
C21_Witness ==
    /\ csv_out # None
    /\ Len(csv_out[1].jit_compilations) = 3
    /\ csv_out[1].jit_compilations[1].compilations = 2
    /\ csv_out[1].jit_compilations[1].total_bytes = 75
    /\ csv_out[1].jit_compilations[2].total_bytes = 75
    /\ csv_out[1].jit_compilations[3].compilations = 1
    /\ csv_out[1].jit_compilations[3].total_bytes = 8

\* C22: errors.csv has no row when parse_errors captured no exception, one row
\* with empty frame fields when it captured one without frames, and otherwise
\* one row per frame, indexed from 0 in frame order; every row carries the
\* captured type and message.
C22_ErrorRowsPerFrame ==
    csv_out # None =>
        LET e    == parse_errors(run_proc.stderr)
            rows == csv_out[1].errors
        IN
        IF e.error_type = None THEN rows = <<>>
        ELSE /\ \A i \in 1..Len(rows) :
                   /\ rows[i].error_type = e.error_type[1]
                   /\ rows[i].message = e.message[1]
             /\ IF e.stacktrace = <<>>
                THEN /\ Len(rows) = 1
                     /\ rows[1].frame_index = None
                     /\ rows[1].frame_text = <<>>
                ELSE /\ Len(rows) = Len(e.stacktrace)
                     /\ \A i \in 1..Len(rows) :
                           /\ rows[i].frame_index = Some(i - 1)
                           /\ rows[i].frame_text = e.stacktrace[i]

\* C27: for the same streams and GC log the summary table and the documents
\* carry the same counts of GC events, of distinct methods and of errors.
C27_SummaryAgreesWithDocument ==
    /\ (csv_out # None /\ metrics_xml # None) =>
          /\ csv_out[1].summary.total_gc_events = metrics_xml[1].gcEvents
          /\ csv_out[1].summary.total_methods = metrics_xml[1].jitCompiledMethods
          /\ csv_out[1].summary.total_errors = metrics_xml[1].errors
    /\ (csv_out # None /\ analysis_xml # None) =>
          /\ csv_out[1].summary.total_gc_events = analysis_xml[1].summary.totalGCEvents
          /\ csv_out[1].summary.total_methods = analysis_xml[1].summary.totalMethods
          /\ csv_out[1].summary.total_errors = analysis_xml[1].summary.totalErrors

\* C27, witness: all three were written for a stderr whose exception line has
\* nothing before its colon; each of them counts no error.
C27_Witness ==
    /\ csv_out # None
    /\ metrics_xml # None
    /\ analysis_xml # None
    /\ ExceptionNos # {}
    /\ parse_errors(run_proc.stderr).error_type = Some(<<>>)
    /\ csv_out[1].summary.total_errors = 0
    /\ metrics_xml[1].errors = 0

\* C28: the error count written is 1 exactly when some stderr line holds
\* "Exception", whatever stands before that line's first colon, and 0 otherwise.
C28_ErrorCountIffExceptionLine ==
    /\ csv_out # None =>
          csv_out[1].summary.total_errors = (IF ExceptionNos # {} THEN 1 ELSE 0)
    /\ metrics_xml # None =>
          metrics_xml[1].errors = (IF ExceptionNos # {} THEN 1 ELSE 0)

\* C23: a session's verdict is emitted only once every candidate of the list
\* has been attempted and a selection made, it is emitted once, and a session
\* with candidates that has ended has emitted it.
C23_VerdictAfterAllAttempted ==
    /\ verdict # "none" =>
          /\ sessions >= 1
          /\ best # None
          /\ Len(execution_times) = Len(codigos_java)
    /\ pc = "validate_code" => verdict = "none"
    /\ (sessions >= 1 /\ Len(codigos_java) > 0 /\ pc \in {"done", "crashed"}) =>
          verdict \in {"Conclusive", "NonConclusive"}

\* The position of the candidate validate_code selected: the first with the
\* least time.
SelectedNo ==
    CHOOSE k \in 1..Len(execution_times) :
        /\ execution_times[k].tempo_ms = best[1].time
        /\ \A j \in 1..(k - 1) : execution_times[j].tempo_ms # best[1].time

\* C25: when validate_code has returned, the file at best_filepath holds the
\* text of the selected candidate, under the class name of that file, and not
\* the text of a candidate written after it.
C25_BestFileHoldsSelected ==
    (best # None /\ pc \in {"done", "non_conclusive_agent"}) =>
        files[best[1].filepath]
            = Some(replace_class_name(codigos_java[SelectedNo], best[1].filepath))

\* C25, witness: the first of three candidates was selected, and the third,
\* written last, is a different text.
C25_Witness ==
    /\ best # None
    /\ pc \in {"done", "non_conclusive_agent"}
    /\ Len(codigos_java) = 3
    /\ best[1].filepath = HardCode(1)
    /\ codigos_java[3].body # codigos_java[1].body
    /\ files[HardCode(3)] # None
    /\ files[HardCode(1)] # None
    /\ files[HardCode(1)][1].body = codigos_java[1].body

\* Position of the first public class declaration of a text, 0 if it has none.
FirstPublic(t) ==
    IF \E j \in 1..Len(t.classes) : t.classes[j].pub
    THEN CHOOSE j \in 1..Len(t.classes) :
            t.classes[j].pub /\ \A m \in 1..(j - 1) : ~t.classes[m].pub
    ELSE 0

\* C26: what validate_code writes for candidate i differs from the candidate's
\* text in one identifier only, the name of its public class, which is now the
\* name of the file; this holds also when another class is declared before the
\* public one.
C26_RenamesPublicClassOnly ==
    \A i \in 1..Len(codigos_java) :
        (files[HardCode(i)] # None /\ FirstPublic(codigos_java[i]) # 0) =>
            files[HardCode(i)][1]
                = [codigos_java[i] EXCEPT
                      !.classes[FirstPublic(codigos_java[i])].name = HardCode(i)]

\* The calls of _compile_and_run that run_pipeline has made: the source each
\* was given, what the machine did, and the record it returned.
CompileAndRunCalls ==
    IF pipe.calls = 0 THEN {}
    ELSE { [source |-> pipe.original_code[1], env |-> pipe.env_original[1],
            metrics |-> pipe.metrics_original[1]],
           [source |-> pipe.opt[1], env |-> pipe.env_optimized[1],
            metrics |-> pipe.metrics_optimized[1]] }

CompiledClean(source) ==
    LET class_name == extract_public_class_name(source) IN
    class_name # None /\ Javac(Some(source), class_name[1]).returncode = 0

\* C24: when evaluation is requested and javac or java cannot be started,
\* run_pipeline makes no call of _compile_and_run, its evaluation step can be
\* taken and leaves the error entry as the metrics of both sources, validation
\* is called next, the only exception after that is one the validator's call
\* raises, and the pipeline that got a reply it can parse returns a final
\* result.
C24_MissingToolsRecordedNotRun ==
    (pipe.evaluate /\ ~(pipe.javac /\ pipe.java)) =>
        /\ pipe.calls = 0
        /\ pipe.env_original = None /\ pipe.env_optimized = None
        /\ pipe.pc = "evaluate" => ENABLED EdgeEvaluate
        /\ pipe.pc \in {"validate", "route", "returned"} =>
              /\ pipe.metrics_original = Some(Unavailable)
              /\ pipe.metrics_optimized = Some(Unavailable)
        /\ pipe.pc = "validate" => ENABLED EdgeValidateAgent
        /\ pipe.pc = "route" => ENABLED EdgeRoute
        /\ pipe.pc = "aborted" =>
              /\ pipe.exc[1].at \in {"read_text", "interpreter", "optimize", "validate"}
              /\ pipe.exc[1].at = "validate" <=> pipe.metrics_original # None
              /\ pipe.metrics_original # None =>
                    /\ pipe.metrics_original = Some(Unavailable)
                    /\ pipe.metrics_optimized = Some(Unavailable)
        /\ pipe.pc = "returned" => pipe.final # None

C24_Witness ==
    /\ pipe.evaluate /\ ~pipe.javac
    /\ pipe.pc = "returned"
    /\ pipe.final # None
    /\ pipe.metrics_original = Some(Unavailable)
    /\ pipe.metrics_optimized = Some(Unavailable)
    /\ pipe.calls = 0

\* C29: the final result run_pipeline returns has type "conclusive" or
\* "non_conclusive"; it is "conclusive" exactly when the validator's reply has
\* a status that reads "conclusive", and then it carries the optimized code;
\* with a missing or any other status it is "non_conclusive" and has no
\* java_code.
C29_FinalTypeFollowsStatus ==
    pipe.pc = "returned" =>
        LET final == pipe.final[1]
            said == pipe.reply_status[1]
            carries == said # None /\ Strip(said[1]) = <<"conclusive">>
        IN  /\ final.type \in {"conclusive", "non_conclusive"}
            /\ final.type = "conclusive" <=> carries
            /\ final.type = "conclusive" => final.java_code = pipe.opt[1]
            /\ final.type = "non_conclusive" => "java_code" \notin DOMAIN final

C29_Witness ==
    /\ pipe.pc = "returned"
    /\ pipe.reply_status = Some(Some(<<"Conclusive">>))
    /\ pipe.final[1].type = "non_conclusive"

====
